---- MODULE Spec2Model ----
(***************************************************************************)
(* meme-bot: the concurrent generation-and-dispatch engine.                *)
(*                                                                         *)
(*   - ImageGenerationService.GenerateImage : three provider goroutines    *)
(*     reporting through two unbuffered channels (SpecRace)                *)
(*   - YandexAuthServiceImpl : the cached IAM token behind an RWMutex      *)
(*     (SpecAuth)                                                          *)
(*   - App.run / App.handleUpdates / App.shutdown / main : the worker      *)
(*     pool, the WaitGroup and the graceful shutdown (Spec, SpecStop)      *)
(*   - YandexGPTServiceImpl : getToken and sendGPTRequest (SpecGPT)        *)
(*   - BotServiceImpl.HandleCommand (SpecHC)                               *)
(*   - one command goroutine step by step (SpecCmd), the command contexts  *)
(*     (SpecCtx), the poll loop waitForImageAndGet (SpecPoll)              *)
(*                                                                         *)
(* Each component has its own next-state relation over the variables       *)
(* declared here; the variables of the other components keep their         *)
(* initial values.                                                         *)
(***************************************************************************)
EXTENDS Integers, Sequences, FiniteSets, TLC

VARIABLES
    \* ---- ImageGenerationService.GenerateImage
    ctxDone,      \* the ctx handed to GenerateImage is cancelled / past its deadline
    prov,         \* provider goroutine -> [pc, err]
    errors,       \* var errors []error of the collecting loop
    i,            \* loop counter of the collecting loop
    genPc,        \* "select" (blocked in the select) | "returned"
    genResult,    \* what GenerateImage returned: [bytes, err]
    \* ---- YandexAuthServiceImpl
    token,        \* s.token ("" is NoToken)
    muWriter,     \* holder of s.mu.Lock(), or NoProc
    muReaders,    \* holders of s.mu.RLock()
    auth,         \* goroutine using the service -> [pc, tok, ret, err, n]
    fetchLog,     \* RefreshIAMToken requests that reached the issuer, with their answers
    calls,        \* GetIAMToken calls started so far
    ticks,        \* ticks of the 50-minute ticker so far
    \* ---- YandexGPTServiceImpl
    gptToken,     \* s.token of the GPT service ("" is NoToken)
    gptFresh,     \* time.Since(s.lastRefresh) < 11*time.Hour
    gpt,          \* the goroutine inside GenerateImagePrompt: [pc, iamToken, sent, ...]
    \* ---- BotServiceImpl.HandleCommand
    hc,           \* one call of HandleCommand: [pc, command, args, prompt, caption, ...]
    \* ---- App
    mainPc,       \* position of func main
    graceExpired, \* shutdownCtx (context.WithTimeout(..., shutdownTimeout)) is done
    rootCtxDone,  \* the root ctx of main is cancelled
    stopChanClosed, \* BotServiceImpl.stopChan is closed
    receiving,    \* the Telegram library still polls for updates
    updates,      \* the updates channel: "open" | "closed"
    huPc,         \* handleUpdates: "idle" | "loop" | "stopped"
    wgCount,      \* counter of a.wg
    errorChan,    \* buffered channel errorChan of handleUpdates: the tasks whose error it holds
    workerPool,   \* number of elements in the buffered channel workerPool
    task,         \* command goroutines in the order they were started: their pc
    waiterPc,     \* goroutine of shutdown that runs a.wg.Wait(); close(done)
    doneClosed,   \* channel done of shutdown is closed
    verdict,      \* which branch the select of shutdown took
    stopper,      \* goroutines other than main that call BotServiceImpl.Stop: their pc
    \* ---- one command goroutine of handleUpdates, step by step
    cmd,          \* [pc, kind, hung, ctx, fired, raced, trace]
    \* ---- the root context of main and the command contexts derived from it
    cctx,         \* [root, c]: root is done; command -> [st, cause, pc]
    \* ---- waitForImageAndGet of YandexArtServiceImpl and FusionBrainServiceImpl
    poll          \* one call: [pc, svc, badID, attempt, checks, ctxDone, startedDone, ret]

raceVars == <<ctxDone, prov, errors, i, genPc, genResult>>
authVars == <<token, muWriter, muReaders, auth, fetchLog, calls, ticks>>
gptVars  == <<gptToken, gptFresh, gpt>>
hcVars   == <<hc>>
appVars  == <<mainPc, graceExpired, rootCtxDone, stopChanClosed, receiving, updates,
              huPc, wgCount, errorChan, workerPool, task, waiterPc, doneClosed,
              verdict, stopper>>
cmdVars  == <<cmd>>
ctxVars  == <<cctx>>
pollVars == <<poll>>
vars == <<raceVars, authVars, gptVars, hcVars, appVars, cmdVars, ctxVars, pollVars>>

-----------------------------------------------------------------------------
(***************************************************************************)
(* ImageGenerationService.GenerateImage                                    *)
(***************************************************************************)

Providers == {"FusionBrain", "YandexArt", "CloudflareAI"}

\* a collecting loop of one iteration
C37_MutantNumAttempts == Cardinality(Providers) - 2

\* number of iterations of the collecting loop: for i := 0; i < 3; i++
NumAttempts == 3
\* giving up only when every provider has failed
C29_MutantFailureThreshold == Cardinality(Providers)

\* the number of collected errors at which the loop gives up: len(errors) == 2
FailureThreshold == 2

\* an error value is a record with a text; nil is the record NoErr
NoErr   == [text |-> "nil"]
IsNil(e) == e.text = "nil"
\* the errors a provider's own GenerateImage returns
CtxError      == [text |-> "context canceled"]
UpstreamError == [text |-> "provider request failed"]
\* a nil []byte (a tuple, like the bytes of ImageOf)
NoBytes == <<"nil">>

\* the bytes a provider's GenerateImage returns; one value per provider
ImageOf(p) == <<"img", p>>

\* what a failing goroutine sends on errorChan: fmt.Errorf("<name> generation failed"),
\* built without %w, so the provider's own error is not part of it
SentError(p) == [text |-> "generation failed", service |-> p, wraps |-> NoErr]

\* fmt.Errorf("all image generation services failed: %w", errors[0])
AggregateError(errs) == [text |-> "all image generation services failed", wraps |-> errs[1]]

\* fmt.Errorf("unexpected error: no results received")
UnexpectedError == [text |-> "unexpected error: no results received", wraps |-> NoErr]

C18_MutantSuccessReturn(p) == [bytes |-> ImageOf("FusionBrain"), err |-> NoErr]

\* return imageData, nil
SuccessReturn(p) == [bytes |-> ImageOf(p), err |-> NoErr]

C7_MutantFailureReturn(errs) == [bytes |-> ImageOf("FusionBrain"), err |-> AggregateError(errs)]

\* return nil, fmt.Errorf("all image generation services failed: %w", errors[0])
FailureReturn(errs) == [bytes |-> NoBytes, err |-> AggregateError(errs)]

\* GenerateImage touches neither the token cache nor the App
RaceFrame == UNCHANGED <<authVars, gptVars, hcVars, appVars, cmdVars, ctxVars, pollVars>>

InitRace ==
    /\ ctxDone = FALSE
    /\ prov = [p \in Providers |-> [pc |-> "running", err |-> NoErr]]
    /\ errors = <<>>
    /\ i = 0
    /\ genPc = "select"
    /\ genResult = [bytes |-> NoBytes, err |-> NoErr]

\* the caller's ctx is cancelled or its deadline expires
CancelCtx ==
    /\ ~ctxDone
    /\ ctxDone' = TRUE
    /\ UNCHANGED <<prov, errors, i, genPc, genResult>>
    /\ RaceFrame

\* s.<provider>.GenerateImage(ctx, promptText) returns err == nil; the goroutine
\* goes on to resultChan <- imageData. The provider's HTTP calls carry ctx, so a
\* success is an answer obtained while ctx is live.
ProviderSucceeds(p) ==
    /\ prov[p].pc = "running"
    /\ ~ctxDone
    /\ prov' = [prov EXCEPT ![p] = [pc |-> "sendResult", err |-> NoErr]]
    /\ UNCHANGED <<ctxDone, errors, i, genPc, genResult>>
    /\ RaceFrame

\* s.<provider>.GenerateImage returns an error (its own, or ctx's once ctx is done);
\* the goroutine goes on to errorChan <- fmt.Errorf(...)
ProviderFails(p) ==
    /\ prov[p].pc = "running"
    /\ \E e \in (IF ctxDone THEN {CtxError} ELSE {UpstreamError}) :
          prov' = [prov EXCEPT ![p] = [pc |-> "sendError", err |-> e]]
    /\ UNCHANGED <<ctxDone, errors, i, genPc, genResult>>
    /\ RaceFrame

C33_MutantReceiveResult(p) ==
    /\ genPc = "select"
    /\ prov[p].pc = "sendResult"
    /\ prov' = [prov EXCEPT ![p].pc = "done"]
    /\ UNCHANGED <<ctxDone, errors, i, genPc, genResult>>
    /\ RaceFrame

\* case imageData := <-resultChan: return imageData, nil
\* (resultChan is unbuffered: the send and the receive are one step)
ReceiveResult(p) ==
    /\ genPc = "select"
    /\ prov[p].pc = "sendResult"
    /\ prov' = [prov EXCEPT ![p].pc = "done"]
    /\ genPc' = "returned"
    /\ genResult' = SuccessReturn(p)
    /\ UNCHANGED <<ctxDone, errors, i>>
    /\ RaceFrame

\* case err := <-errorChan: errors = append(errors, err); if len(errors) == 2 {return}
\* and, when the loop runs out, the return after it
ReceiveError(p) ==
    /\ genPc = "select"
    /\ prov[p].pc = "sendError"
    /\ prov' = [prov EXCEPT ![p].pc = "done"]
    /\ errors' = Append(errors, SentError(p))
    /\ IF Len(errors') = FailureThreshold
         THEN /\ genPc' = "returned"
              /\ genResult' = FailureReturn(errors')
              /\ i' = i
         ELSE /\ i' = i + 1
              /\ IF i' < NumAttempts
                   THEN /\ genPc' = "select"
                        /\ genResult' = genResult
                   ELSE /\ genPc' = "returned"
                        /\ genResult' = [bytes |-> NoBytes, err |-> UnexpectedError]
    /\ UNCHANGED ctxDone
    /\ RaceFrame

NextRace ==
    \/ CancelCtx
    \/ \E p \in Providers : ProviderSucceeds(p)
    \/ \E p \in Providers : ProviderFails(p)
    \/ \E p \in Providers : ReceiveResult(p)
    \/ \E p \in Providers : ReceiveError(p)

-----------------------------------------------------------------------------
(***************************************************************************)
(* YandexAuthServiceImpl                                                   *)
(***************************************************************************)

\* the zero value "" of s.token; the k-th answer of the issuer carries token k
NoToken == 0
\* no goroutine (the mutex is free)
NoProc  == -1

\* goroutines that call GetIAMToken concurrently
NumCallers == 2
\* GetIAMToken calls in one behaviour
MaxCalls == 3
\* ticks of refreshTokenPeriodically in one behaviour
MaxTicks == 1

Callers == 1 .. NumCallers
\* the goroutine started by NewYandexAuthService: go service.refreshTokenPeriodically()
Ticker == 0
AuthProcs == Callers \cup {Ticker}

\* RefreshIAMToken touches neither GenerateImage nor the App
AuthFrame == UNCHANGED <<raceVars, gptVars, hcVars, appVars, cmdVars, ctxVars, pollVars>>

InitAuth ==
    /\ token = NoToken
    /\ muWriter = NoProc
    /\ muReaders = {}
    /\ auth = [p \in AuthProcs |->
                 [pc |-> IF p = Ticker THEN "wait" ELSE "idle",
                  tok |-> NoToken, ret |-> NoToken, err |-> NoErr, n |-> 0]]
    /\ fetchLog = <<>>
    /\ calls = 0
    /\ ticks = 0

C21_MutantCanRLock == muWriter = NoProc /\ muReaders = {}

\* s.mu.RLock() succeeds when no writer holds the mutex
CanRLock == muWriter = NoProc
C27_MutantCanLock == TRUE

\* s.mu.Lock() succeeds when nobody holds the mutex
CanLock == muWriter = NoProc /\ muReaders = {}

C20_MutantFastPathHit(t) == TRUE

\* if token != "" (GetIAMToken)
FastPathHit(t) == t # NoToken

C2_MutantRecheckHit(t) == FALSE

\* if s.token != "" (refreshToken, after s.mu.Lock())
RecheckHit(t) == t # NoToken

\* a goroutine enters GetIAMToken
CallGetIAMToken(c) ==
    /\ auth[c].pc = "idle"
    /\ calls < MaxCalls
    /\ calls' = calls + 1
    /\ auth' = [auth EXCEPT ![c].pc = "rlock"]
    /\ UNCHANGED <<token, muWriter, muReaders, fetchLog, ticks>>
    /\ AuthFrame

\* s.mu.RLock(); token := s.token
ReadLocked(c) ==
    /\ auth[c].pc = "rlock"
    /\ CanRLock
    /\ muReaders' = muReaders \cup {c}
    /\ auth' = [auth EXCEPT ![c].pc = "runlock", ![c].tok = token]
    /\ UNCHANGED <<token, muWriter, fetchLog, calls, ticks>>
    /\ AuthFrame

\* s.mu.RUnlock(); if token != "" { return token, nil }; return s.refreshToken(ctx)
ReadUnlock(c) ==
    /\ auth[c].pc = "runlock"
    /\ muReaders' = muReaders \ {c}
    /\ IF FastPathHit(auth[c].tok)
         THEN auth' = [auth EXCEPT ![c].pc = "idle", ![c].ret = auth[c].tok,
                                   ![c].err = NoErr, ![c].n = @ + 1]
         ELSE auth' = [auth EXCEPT ![c].pc = "lock"]
    /\ UNCHANGED <<token, muWriter, fetchLog, calls, ticks>>
    /\ AuthFrame

C26_MutantAfterRefresh(p, e) == IF p = Ticker THEN "wait" ELSE "idle"

\* where refreshToken returns to: GetIAMToken returns its result to the caller,
\* refreshTokenPeriodically looks at the error
AfterRefresh(p, e) ==
    IF p = Ticker THEN (IF IsNil(e) THEN "wait" ELSE "clear") ELSE "idle"

\* refreshToken: s.mu.Lock()
RefreshLock(p) ==
    /\ auth[p].pc = "lock"
    /\ CanLock
    /\ muWriter' = p
    /\ auth' = [auth EXCEPT ![p].pc = "locked"]
    /\ UNCHANGED <<token, muReaders, fetchLog, calls, ticks>>
    /\ AuthFrame

\* refreshToken: if s.token != "" { return s.token, nil } (with the deferred Unlock)
RefreshRecheckHit(p) ==
    /\ auth[p].pc = "locked"
    /\ RecheckHit(token)
    /\ muWriter' = NoProc
    /\ auth' = [auth EXCEPT ![p].pc = AfterRefresh(p, NoErr), ![p].ret = token,
                              ![p].err = NoErr, ![p].n = @ + 1]
    /\ UNCHANGED <<token, muReaders, fetchLog, calls, ticks>>
    /\ AuthFrame

\* refreshToken: s.RefreshIAMToken(ctx, ...) sends its request to the issuer
RefreshRequest(p) ==
    /\ auth[p].pc = "locked"
    /\ ~RecheckHit(token)
    /\ fetchLog' = Append(fetchLog, [by |-> p, state |-> "pending", tok |-> NoToken])
    /\ auth' = [auth EXCEPT ![p].pc = "fetching"]
    /\ UNCHANGED <<token, muWriter, muReaders, calls, ticks>>
    /\ AuthFrame

\* the request of goroutine p that is in flight
PendingOf(p) == CHOOSE k \in 1 .. Len(fetchLog) : fetchLog[k].by = p /\ fetchLog[k].state = "pending"

\* RefreshIAMToken returns an error; refreshToken returns "", err (deferred Unlock)
RefreshFails(p) ==
    /\ auth[p].pc = "fetching"
    /\ fetchLog' = [fetchLog EXCEPT ![PendingOf(p)].state = "error"]
    /\ muWriter' = NoProc
    /\ auth' = [auth EXCEPT ![p].pc = AfterRefresh(p, UpstreamError), ![p].ret = NoToken,
                              ![p].err = UpstreamError, ![p].n = @ + 1]
    /\ UNCHANGED <<token, muReaders, calls, ticks>>
    /\ AuthFrame

\* RefreshIAMToken returns iamTokenResponse.IAMToken, nil: a fresh token, or ""
\* when the 200 answer carries no iamToken; s.token = newToken; return newToken, nil
RefreshSucceeds(p) ==
    /\ auth[p].pc = "fetching"
    /\ \E t \in {PendingOf(p), NoToken} :
          /\ fetchLog' = [fetchLog EXCEPT ![PendingOf(p)].state = "ok",
                                          ![PendingOf(p)].tok = t]
          /\ token' = t
          /\ auth' = [auth EXCEPT ![p].pc = AfterRefresh(p, NoErr), ![p].ret = t,
                                    ![p].err = NoErr, ![p].n = @ + 1]
    /\ muWriter' = NoProc
    /\ UNCHANGED <<muReaders, calls, ticks>>
    /\ AuthFrame

\* refreshTokenPeriodically: for range ticker.C { _, err := s.refreshToken(ctx)
TickerTick ==
    /\ auth[Ticker].pc = "wait"
    /\ ticks < MaxTicks
    /\ ticks' = ticks + 1
    /\ auth' = [auth EXCEPT ![Ticker].pc = "lock"]
    /\ UNCHANGED <<token, muWriter, muReaders, fetchLog, calls>>
    /\ AuthFrame

\* refreshTokenPeriodically: if err != nil { s.mu.Lock()
TickerClearLock ==
    /\ auth[Ticker].pc = "clear"
    /\ CanLock
    /\ muWriter' = Ticker
    /\ auth' = [auth EXCEPT ![Ticker].pc = "clearing"]
    /\ UNCHANGED <<token, muReaders, fetchLog, calls, ticks>>
    /\ AuthFrame

\* refreshTokenPeriodically: s.token = ""; s.mu.Unlock() }
TickerClear ==
    /\ auth[Ticker].pc = "clearing"
    /\ token' = NoToken
    /\ muWriter' = NoProc
    /\ auth' = [auth EXCEPT ![Ticker].pc = "wait"]
    /\ UNCHANGED <<muReaders, fetchLog, calls, ticks>>
    /\ AuthFrame

NextAuth ==
    \/ \E c \in Callers : CallGetIAMToken(c)
    \/ \E c \in Callers : ReadLocked(c)
    \/ \E c \in Callers : ReadUnlock(c)
    \/ \E p \in AuthProcs : RefreshLock(p)
    \/ \E p \in AuthProcs : RefreshRecheckHit(p)
    \/ \E p \in AuthProcs : RefreshRequest(p)
    \/ \E p \in AuthProcs : RefreshFails(p)
    \/ \E p \in AuthProcs : RefreshSucceeds(p)
    \/ TickerTick
    \/ TickerClearLock
    \/ TickerClear

-----------------------------------------------------------------------------
(***************************************************************************)
(* YandexGPTServiceImpl: getToken and sendGPTRequest, on top of the        *)
(* YandexAuthServiceImpl it was constructed with                           *)
(***************************************************************************)

\* GenerateImagePrompt invocations in one behaviour
MaxPrompts == 2
\* requests one sendGPTRequest invocation may send before the server stops
\* answering 401 (the source sets no limit)
MaxSends == 3

\* the goroutine that runs GenerateImagePrompt is one of the callers of the
\* auth service
GptCaller == 1

\* no invalidation is waiting for the next token request
NoInval == -1

\* the GPT service touches GenerateImage and the App not at all, and the auth
\* service only through GetIAMToken
GptFrame == UNCHANGED <<raceVars, hcVars, appVars, cmdVars, ctxVars, pollVars>>

InitGPT ==
    /\ gptToken = NoToken
    /\ gptFresh = FALSE
    /\ gpt = [pc |-> "idle", iamToken |-> NoToken, sent |-> <<>>, prompts |-> 0,
              inval |-> NoInval, out |-> "none"]

\* getToken: if token != "" && time.Since(lastRefresh) < 11*time.Hour
GptCacheHit(t, fresh) == t # NoToken /\ fresh

\* GenerateImagePrompt is called: iamToken, err := s.getToken(ctx)
GptGenerateImagePrompt ==
    /\ gpt.pc = "idle"
    /\ gpt.prompts < MaxPrompts
    /\ gpt' = [gpt EXCEPT !.pc = "getToken", !.prompts = @ + 1, !.sent = <<>>,
                          !.iamToken = NoToken, !.out = "none"]
    /\ UNCHANGED <<gptToken, gptFresh, authVars>>
    /\ GptFrame

\* eleven hours pass since s.lastRefresh
GptTokenAges ==
    /\ gptFresh
    /\ gptFresh' = FALSE
    /\ UNCHANGED <<gptToken, gpt, authVars>>
    /\ GptFrame

\* getToken: the token of the GPT service is there and fresh: return token, nil
GptGetTokenCached ==
    /\ gpt.pc = "getToken"
    /\ GptCacheHit(gptToken, gptFresh)
    /\ gpt' = [gpt EXCEPT !.pc = "send", !.iamToken = gptToken]
    /\ UNCHANGED <<gptToken, gptFresh, authVars>>
    /\ GptFrame

\* getToken: newToken, err := s.authService.GetIAMToken(ctx)
GptGetTokenCallsAuth ==
    /\ gpt.pc = "getToken"
    /\ ~GptCacheHit(gptToken, gptFresh)
    /\ auth[GptCaller].pc = "idle"
    /\ gpt' = [gpt EXCEPT !.pc = "inAuth"]
    /\ auth' = [auth EXCEPT ![GptCaller].pc = "rlock"]
    /\ UNCHANGED <<gptToken, gptFresh, token, muWriter, muReaders, fetchLog, calls, ticks>>
    /\ GptFrame

\* getToken: GetIAMToken returned an error: return "", err, and GenerateImagePrompt
\* returns "getting IAM token: ..."
GptGetTokenFails ==
    /\ gpt.pc = "inAuth"
    /\ auth[GptCaller].pc = "idle"
    /\ ~IsNil(auth[GptCaller].err)
    /\ gpt' = [gpt EXCEPT !.pc = "idle", !.out = "tokenError"]
    /\ UNCHANGED <<gptToken, gptFresh, authVars>>
    /\ GptFrame

\* getToken: GetIAMToken returned a token: s.token = newToken;
\* s.lastRefresh = time.Now(); return newToken, nil
GptGetTokenStores ==
    /\ gpt.pc = "inAuth"
    /\ auth[GptCaller].pc = "idle"
    /\ IsNil(auth[GptCaller].err)
    /\ gptToken' = auth[GptCaller].ret
    /\ gptFresh' = TRUE
    /\ gpt' = [gpt EXCEPT !.pc = "send", !.iamToken = auth[GptCaller].ret,
                          !.inval = NoInval]
    /\ UNCHANGED authVars
    /\ GptFrame

\* sendGPTRequest: req.Header.Set("Authorization", "Bearer "+iamToken); client.Do(req)
GptSendRequest ==
    /\ gpt.pc = "send"
    /\ gpt' = [gpt EXCEPT !.pc = "await", !.sent = Append(@, gpt.iamToken)]
    /\ UNCHANGED <<gptToken, gptFresh, authVars>>
    /\ GptFrame

\* sendGPTRequest: resp.StatusCode == http.StatusUnauthorized: s.token = "";
\* return s.sendGPTRequest(ctx, iamToken, request)
GptResponse401 ==
    /\ gpt.pc = "await"
    /\ Len(gpt.sent) < MaxSends
    /\ gptToken' = NoToken
    /\ gpt' = [gpt EXCEPT !.pc = "send", !.inval = Len(fetchLog)]
    /\ UNCHANGED <<gptFresh, authVars>>
    /\ GptFrame

\* sendGPTRequest: status 200 and a body that decodes: return &response, nil
GptResponseOk ==
    /\ gpt.pc = "await"
    /\ gpt' = [gpt EXCEPT !.pc = "idle", !.out = "ok"]
    /\ UNCHANGED <<gptToken, gptFresh, authVars>>
    /\ GptFrame

\* sendGPTRequest: the request fails, the status is neither 200 nor 401, or the
\* body does not decode: return nil, err
GptResponseError ==
    /\ gpt.pc = "await"
    /\ gpt' = [gpt EXCEPT !.pc = "idle", !.out = "error"]
    /\ UNCHANGED <<gptToken, gptFresh, authVars>>
    /\ GptFrame

\* the GPT goroutine, its steps inside the auth service, and the background
\* refresh of the auth service
NextGPT ==
    \/ GptGenerateImagePrompt
    \/ GptTokenAges
    \/ GptGetTokenCached
    \/ GptGetTokenCallsAuth
    \/ GptGetTokenFails
    \/ GptGetTokenStores
    \/ GptSendRequest
    \/ GptResponse401
    \/ GptResponseOk
    \/ GptResponseError
    \/ ReadLocked(GptCaller)
    \/ ReadUnlock(GptCaller)
    \/ \E p \in {GptCaller, Ticker} : RefreshLock(p)
    \/ \E p \in {GptCaller, Ticker} : RefreshRecheckHit(p)
    \/ \E p \in {GptCaller, Ticker} : RefreshRequest(p)
    \/ \E p \in {GptCaller, Ticker} : RefreshFails(p)
    \/ \E p \in {GptCaller, Ticker} : RefreshSucceeds(p)
    \/ TickerTick
    \/ TickerClearLock
    \/ TickerClear

-----------------------------------------------------------------------------
(***************************************************************************)
(* BotServiceImpl.HandleCommand                                            *)
(***************************************************************************)

\* the commands and arguments HandleCommand is called with
Commands == {"meme", "start", "help", "unknown"}
ArgStrings == {"", "cat", "dog", "bird"}

\* the default prompt that replaces empty args
DefaultPrompt == "default prompt"

\* what s.promptEnhancer.EnhancePrompt(ctx, args) can return
EnhanceOutcomes(args) ==
    { [prompt |-> <<"enhanced", args>>, caption |-> "caption", err |-> NoErr],
      [prompt |-> <<"enhanced", args>>, caption |-> "", err |-> NoErr],
      [prompt |-> <<>>, caption |-> "", err |-> UpstreamError] }

\* a prompt handed to GenerateImage as the caller gave it: enhancedPrompt = args
Original(args) == <<"original", args>>

\* what s.artService.GenerateImage(ctx, enhancedPrompt) can return
GenerateOutcomes ==
    {SuccessReturn(p) : p \in Providers}
        \cup {FailureReturn(<<SentError(p)>>) : p \in Providers}
        \cup {[bytes |-> NoBytes, err |-> UnexpectedError]}

\* fmt.Errorf("unknown command: %s", command)
UnknownCommandError(command) == [text |-> "unknown command", command |-> command]

\* no call of GenerateImage has returned
NoOutcome == [bytes |-> NoBytes, err |-> NoErr]

\* default: return nil, fmt.Errorf("unknown command: %s", command), ""
UnknownReturn(command) ==
    [bytes |-> NoBytes, err |-> UnknownCommandError(command), caption |-> ""]

C23_MutantMemeReturn(r, caption) == [bytes |-> NoBytes, err |-> r.err, caption |-> caption]

\* return image, err, caption
MemeReturn(r, caption) == [bytes |-> r.bytes, err |-> r.err, caption |-> caption]

\* HandleCommand touches nothing but its own arguments and locals
HCFrame == UNCHANGED <<raceVars, authVars, gptVars, appVars, cmdVars, ctxVars, pollVars>>

InitHC ==
    hc = [pc |-> "idle", command |-> "", args |-> "", prompt |-> <<>>, caption |-> "",
          genCalls |-> <<>>, gen |-> NoOutcome,
          ret |-> [bytes |-> NoBytes, err |-> NoErr, caption |-> ""]]

\* HandleCommand(ctx, command, args) is called
HCCall(command, args) ==
    /\ hc.pc = "idle"
    /\ hc' = [hc EXCEPT !.pc = "switch", !.command = command, !.args = args]
    /\ HCFrame

\* switch command { default: return nil, fmt.Errorf("unknown command: ..."), "" }
HCUnknownCommand ==
    /\ hc.pc = "switch"
    /\ hc.command # "meme"
    /\ hc' = [hc EXCEPT !.pc = "returned", !.ret = UnknownReturn(hc.command)]
    /\ HCFrame

\* case "meme": if args == "" { args = <default prompt> };
\* enhancedPrompt, caption, err := s.promptEnhancer.EnhancePrompt(ctx, args);
\* if err != nil { enhancedPrompt = args }
HCEnhance ==
    /\ hc.pc = "switch"
    /\ hc.command = "meme"
    /\ LET args == IF hc.args = "" THEN DefaultPrompt ELSE hc.args
       IN  \E o \in EnhanceOutcomes(args) :
              hc' = [hc EXCEPT !.pc = "generate", !.args = args,
                               !.prompt = IF IsNil(o.err) THEN o.prompt ELSE Original(args),
                               !.caption = o.caption]
    /\ HCFrame

\* image, err := s.artService.GenerateImage(ctx, enhancedPrompt): the call
HCGenerateCall ==
    /\ hc.pc = "generate"
    /\ hc' = [hc EXCEPT !.pc = "generating", !.genCalls = Append(@, hc.prompt)]
    /\ HCFrame

\* GenerateImage returns; return image, err, caption
HCGenerateReturns ==
    /\ hc.pc = "generating"
    /\ \E r \in GenerateOutcomes :
          hc' = [hc EXCEPT !.pc = "returned", !.gen = r, !.ret = MemeReturn(r, hc.caption)]
    /\ HCFrame

NextHC ==
    \/ \E command \in Commands, args \in ArgStrings : HCCall(command, args)
    \/ HCUnknownCommand
    \/ HCEnhance
    \/ HCGenerateCall
    \/ HCGenerateReturns

-----------------------------------------------------------------------------
(***************************************************************************)
(* App                                                                     *)
(***************************************************************************)

\* capacity of workerPool: make(chan struct{}, workerPoolSize). The source sets 10;
\* the model runs the same code with a smaller pool.
workerPoolSize == 2
\* capacity of errorChan: make(chan error, 1)
ErrorChanCap == 1
\* commands received in one behaviour: enough to fill the pool and leave two waiting
MaxTasks == workerPoolSize + 2

\* goroutines that call the exported BotServiceImpl.Stop besides App.shutdown
NumStopCallers == 2
StopCallers == 1 .. NumStopCallers

\* the App touches neither GenerateImage's channels nor the token cache
AppFrame == UNCHANGED <<raceVars, authVars, gptVars, hcVars, cmdVars, ctxVars, pollVars>>

InitApp ==
    /\ mainPc = "run"
    /\ graceExpired = FALSE
    /\ rootCtxDone = FALSE
    /\ stopChanClosed = FALSE
    /\ receiving = TRUE
    /\ updates = "open"
    /\ huPc = "idle"
    /\ wgCount = 0
    /\ errorChan = <<>>
    /\ workerPool = 0
    /\ task = <<>>
    /\ waiterPc = "none"
    /\ doneClosed = FALSE
    /\ verdict = "none"
    /\ stopper = [c \in StopCallers |-> "idle"]

\* the process runs until func main returns or a goroutine dies of a panic
Alive == mainPc # "exited"

Tasks == 1 .. Len(task)
\* tasks that completed the send on workerPool and not yet the deferred receive
Holders == {t \in Tasks : task[t] \in {"handle", "sendErr", "defers", "release"}}
\* tasks still counted in a.wg
Tracked == {t \in Tasks : task[t] \in {"acquire", "handle", "sendErr", "defers"}}

\* ---- func main and App.run

\* app.run(ctx): a.wg.Add(1); go func() { defer a.wg.Done(); a.handleUpdates(ctx) }()
MainRun ==
    /\ mainPc = "run"
    /\ mainPc' = "waitSignal"
    /\ wgCount' = wgCount + 1
    /\ huPc' = "loop"
    /\ UNCHANGED <<stopper, graceExpired, rootCtxDone, stopChanClosed, receiving, updates,
                   errorChan, workerPool, task, waiterPc, doneClosed, verdict>>
    /\ AppFrame

\* <-sigChan; shutdownCtx, shutdownCancel := context.WithTimeout(..., shutdownTimeout)
MainSignal ==
    /\ mainPc = "waitSignal"
    /\ mainPc' = "stop"
    /\ UNCHANGED <<stopper, graceExpired, rootCtxDone, stopChanClosed, receiving, updates, huPc,
                   wgCount, errorChan, workerPool, task, waiterPc, doneClosed, verdict>>
    /\ AppFrame

\* the timer of shutdownCtx fires shutdownTimeout after the context was made; the
\* select of App.shutdown is the only reader of shutdownCtx, so an expiry before
\* main reaches the select is seen there as an expiry on arrival
GraceExpires ==
    /\ mainPc = "select"
    /\ ~graceExpired
    /\ graceExpired' = TRUE
    /\ UNCHANGED <<stopper, mainPc, rootCtxDone, stopChanClosed, receiving, updates, huPc,
                   wgCount, errorChan, workerPool, task, waiterPc, doneClosed, verdict>>
    /\ AppFrame

\* App.shutdown up to its select: a.bot.Stop(), that is close(s.stopChan) and
\* s.Bot.StopReceivingUpdates(); done := make(chan struct{});
\* go func() { a.wg.Wait(); close(done) }()
ShutdownStop ==
    /\ mainPc = "stop"
    /\ mainPc' = "select"
    /\ stopChanClosed' = TRUE
    /\ receiving' = FALSE
    /\ waiterPc' = "waiting"
    /\ UNCHANGED <<stopper, graceExpired, rootCtxDone, updates, huPc, wgCount, errorChan,
                   workerPool, task, doneClosed, verdict>>
    /\ AppFrame

C5_MutantWaitReturns(n) == TRUE

\* a.wg.Wait() returns when the counter is zero
WaitReturns(n) == n = 0

\* the goroutine of shutdown: a.wg.Wait() returns; close(done)
WaiterCloseDone ==
    /\ Alive
    /\ waiterPc = "waiting"
    /\ WaitReturns(wgCount)
    /\ waiterPc' = "finished"
    /\ doneClosed' = TRUE
    /\ UNCHANGED <<stopper, mainPc, graceExpired, rootCtxDone, stopChanClosed, receiving, updates,
                   huPc, wgCount, errorChan, workerPool, task, verdict>>
    /\ AppFrame

C6_MutantTimeoutReady(expired) == FALSE

\* case <-ctx.Done() of the select in App.shutdown is ready
TimeoutReady(expired) == expired

\* App.shutdown: case <-done: "All goroutines completed successfully"; then
\* a.metrics.Shutdown(context.Background()) and the return to main
\* (when both cases of the select are ready Go picks either)
ShutdownSelectDone ==
    /\ mainPc = "select"
    /\ doneClosed
    /\ mainPc' = "deferCancel"
    /\ verdict' = "drained"
    /\ UNCHANGED <<stopper, graceExpired, rootCtxDone, stopChanClosed, receiving, updates, huPc,
                   wgCount, errorChan, workerPool, task, waiterPc, doneClosed>>
    /\ AppFrame

\* App.shutdown: case <-ctx.Done(): "Shutdown timed out"; then
\* a.metrics.Shutdown(context.Background()) and the return to main
ShutdownSelectTimeout ==
    /\ mainPc = "select"
    /\ TimeoutReady(graceExpired)
    /\ mainPc' = "deferCancel"
    /\ verdict' = "timeout"
    /\ UNCHANGED <<stopper, graceExpired, rootCtxDone, stopChanClosed, receiving, updates, huPc,
                   wgCount, errorChan, workerPool, task, waiterPc, doneClosed>>
    /\ AppFrame

\* func main returns: the deferred shutdownCancel() and cancel() run
MainDeferCancel ==
    /\ mainPc = "deferCancel"
    /\ mainPc' = "return"
    /\ rootCtxDone' = TRUE
    /\ UNCHANGED <<stopper, graceExpired, stopChanClosed, receiving, updates, huPc, wgCount,
                   errorChan, workerPool, task, waiterPc, doneClosed, verdict>>
    /\ AppFrame

\* func main has returned: the process and all its goroutines end
MainReturn ==
    /\ mainPc = "return"
    /\ mainPc' = "exited"
    /\ UNCHANGED <<stopper, graceExpired, rootCtxDone, stopChanClosed, receiving, updates, huPc,
                   wgCount, errorChan, workerPool, task, waiterPc, doneClosed, verdict>>
    /\ AppFrame

\* ---- BotServiceImpl.Stop called by other goroutines

\* a goroutine calls s.Stop(): if s.stopChan != nil (it is set by the constructor
\* and never reset)
StopCall(c) ==
    /\ Alive
    /\ stopper[c] = "idle"
    /\ stopper' = [stopper EXCEPT ![c] = "close"]
    /\ UNCHANGED <<mainPc, graceExpired, rootCtxDone, stopChanClosed, receiving, updates,
                   huPc, wgCount, errorChan, workerPool, task, waiterPc, doneClosed,
                   verdict>>
    /\ AppFrame

\* Stop: close(s.stopChan). Closing a channel that is already closed panics, and
\* nothing recovers: the process ends.
StopClose(c) ==
    /\ Alive
    /\ stopper[c] = "close"
    /\ IF stopChanClosed
         THEN /\ stopper' = [stopper EXCEPT ![c] = "panicked"]
              /\ mainPc' = "exited"
              /\ UNCHANGED stopChanClosed
         ELSE /\ stopper' = [stopper EXCEPT ![c] = "stopReceiving"]
              /\ stopChanClosed' = TRUE
              /\ UNCHANGED mainPc
    /\ UNCHANGED <<graceExpired, rootCtxDone, receiving, updates, huPc, wgCount,
                   errorChan, workerPool, task, waiterPc, doneClosed, verdict>>
    /\ AppFrame

\* Stop: s.Bot.StopReceivingUpdates(), and the return
StopReceiving(c) ==
    /\ Alive
    /\ stopper[c] = "stopReceiving"
    /\ stopper' = [stopper EXCEPT ![c] = "returned"]
    /\ receiving' = FALSE
    /\ UNCHANGED <<mainPc, graceExpired, rootCtxDone, stopChanClosed, updates, huPc,
                   wgCount, errorChan, workerPool, task, waiterPc, doneClosed, verdict>>
    /\ AppFrame

\* ---- the Telegram library behind BotAPI

\* after StopReceivingUpdates the polling goroutine of the library closes the
\* updates channel the next time it looks at its shutdown channel
LibCloseUpdates ==
    /\ Alive
    /\ ~receiving
    /\ updates = "open"
    /\ updates' = "closed"
    /\ UNCHANGED <<stopper, mainPc, graceExpired, rootCtxDone, stopChanClosed, receiving, huPc,
                   wgCount, errorChan, workerPool, task, waiterPc, doneClosed, verdict>>
    /\ AppFrame

\* ---- App.handleUpdates

\* case <-ctx.Done(): return (and the deferred a.wg.Done() of App.run's goroutine)
HUCtxDone ==
    /\ Alive
    /\ huPc = "loop"
    /\ rootCtxDone
    /\ huPc' = "stopped"
    /\ wgCount' = wgCount - 1
    /\ UNCHANGED <<stopper, mainPc, graceExpired, rootCtxDone, stopChanClosed, receiving, updates,
                   errorChan, workerPool, task, waiterPc, doneClosed, verdict>>
    /\ AppFrame

\* case err := <-errorChan: a.log.Error(...)
HULogError ==
    /\ Alive
    /\ huPc = "loop"
    /\ errorChan # <<>>
    /\ errorChan' = Tail(errorChan)
    /\ UNCHANGED <<stopper, mainPc, graceExpired, rootCtxDone, stopChanClosed, receiving, updates,
                   huPc, wgCount, workerPool, task, waiterPc, doneClosed, verdict>>
    /\ AppFrame

C32_MutantHUUpdatesClosed ==
    /\ Alive
    /\ huPc = "loop"
    /\ updates = "closed"
    /\ UNCHANGED appVars
    /\ AppFrame

\* case update, ok := <-updates: if !ok { return } (and the deferred a.wg.Done())
HUUpdatesClosed ==
    /\ Alive
    /\ huPc = "loop"
    /\ updates = "closed"
    /\ huPc' = "stopped"
    /\ wgCount' = wgCount - 1
    /\ UNCHANGED <<stopper, mainPc, graceExpired, rootCtxDone, stopChanClosed, receiving, updates,
                   errorChan, workerPool, task, waiterPc, doneClosed, verdict>>
    /\ AppFrame

\* case update, ok := <-updates: update.Message == nil, or not a command: next round
HUSkipUpdate ==
    /\ Alive
    /\ huPc = "loop"
    /\ updates = "open"
    /\ UNCHANGED appVars
    /\ AppFrame

\* case update, ok := <-updates: a command: a.wg.Add(1); go func(update) {...}(update)
HUSpawnTask ==
    /\ Alive
    /\ huPc = "loop"
    /\ updates = "open"
    /\ Len(task) < MaxTasks
    /\ wgCount' = wgCount + 1
    /\ task' = Append(task, "acquire")
    /\ UNCHANGED <<stopper, mainPc, graceExpired, rootCtxDone, stopChanClosed, receiving, updates,
                   huPc, errorChan, workerPool, waiterPc, doneClosed, verdict>>
    /\ AppFrame

\* ---- the goroutine of one command

C3_MutantCanAcquire(n) == TRUE

\* workerPool <- struct{}{} goes through while the buffer is not full
CanAcquire(n) == n < workerPoolSize

\* workerPool <- struct{}{}
TaskAcquire(t) ==
    /\ Alive
    /\ task[t] = "acquire"
    /\ CanAcquire(workerPool)
    /\ workerPool' = workerPool + 1
    /\ task' = [task EXCEPT ![t] = "handle"]
    /\ UNCHANGED <<stopper, mainPc, graceExpired, rootCtxDone, stopChanClosed, receiving, updates,
                   huPc, wgCount, errorChan, waiterPc, doneClosed, verdict>>
    /\ AppFrame

\* a.handleCommand(cmdCtx, update, command, args) returns nil
TaskHandlerOk(t) ==
    /\ Alive
    /\ task[t] = "handle"
    /\ task' = [task EXCEPT ![t] = "defers"]
    /\ UNCHANGED <<stopper, mainPc, graceExpired, rootCtxDone, stopChanClosed, receiving, updates,
                   huPc, wgCount, errorChan, workerPool, waiterPc, doneClosed, verdict>>
    /\ AppFrame

\* a.handleCommand(...) returns an error: the task goes on to errorChan <- fmt.Errorf(...)
TaskHandlerErr(t) ==
    /\ Alive
    /\ task[t] = "handle"
    /\ task' = [task EXCEPT ![t] = "sendErr"]
    /\ UNCHANGED <<stopper, mainPc, graceExpired, rootCtxDone, stopChanClosed, receiving, updates,
                   huPc, wgCount, errorChan, workerPool, waiterPc, doneClosed, verdict>>
    /\ AppFrame

\* a.handleCommand(...) panics. The goroutine has no recover(): its deferred calls
\* run (cancel(), a.wg.Done(), <-workerPool) while the panic unwinds, and with the
\* panic reaching the top of the goroutine the Go runtime ends the whole process,
\* main and every other goroutine with it.
TaskHandlerPanics(t) ==
    /\ Alive
    /\ task[t] = "handle"
    /\ task' = [task EXCEPT ![t] = "panicked"]
    /\ wgCount' = wgCount - 1
    /\ workerPool' = workerPool - 1
    /\ mainPc' = "exited"
    /\ UNCHANGED <<stopper, graceExpired, rootCtxDone, stopChanClosed, receiving, updates,
                   huPc, errorChan, waiterPc, doneClosed, verdict>>
    /\ AppFrame

\* errorChan <- fmt.Errorf("command %s failed: %w", command, err)
TaskSendErr(t) ==
    /\ Alive
    /\ task[t] = "sendErr"
    /\ Len(errorChan) < ErrorChanCap
    /\ errorChan' = Append(errorChan, t)
    /\ task' = [task EXCEPT ![t] = "defers"]
    /\ UNCHANGED <<stopper, mainPc, graceExpired, rootCtxDone, stopChanClosed, receiving, updates,
                   huPc, wgCount, workerPool, waiterPc, doneClosed, verdict>>
    /\ AppFrame

\* the deferred calls, last registered first: cancel(); a.wg.Done()
TaskDeferWgDone(t) ==
    /\ Alive
    /\ task[t] = "defers"
    /\ wgCount' = wgCount - 1
    /\ task' = [task EXCEPT ![t] = "release"]
    /\ UNCHANGED <<stopper, mainPc, graceExpired, rootCtxDone, stopChanClosed, receiving, updates,
                   huPc, errorChan, workerPool, waiterPc, doneClosed, verdict>>
    /\ AppFrame

\* the first registered deferred call: func() { <-workerPool }()
TaskRelease(t) ==
    /\ Alive
    /\ task[t] = "release"
    /\ workerPool > 0
    /\ workerPool' = workerPool - 1
    /\ task' = [task EXCEPT ![t] = "done"]
    /\ UNCHANGED <<stopper, mainPc, graceExpired, rootCtxDone, stopChanClosed, receiving, updates,
                   huPc, wgCount, errorChan, waiterPc, doneClosed, verdict>>
    /\ AppFrame

Next ==
    \/ MainRun
    \/ MainSignal
    \/ GraceExpires
    \/ ShutdownStop
    \/ WaiterCloseDone
    \/ ShutdownSelectDone
    \/ ShutdownSelectTimeout
    \/ MainDeferCancel
    \/ MainReturn
    \/ LibCloseUpdates
    \/ HUCtxDone
    \/ HULogError
    \/ HUUpdatesClosed
    \/ HUSkipUpdate
    \/ HUSpawnTask
    \/ \E t \in Tasks : TaskAcquire(t)
    \/ \E t \in Tasks : TaskHandlerOk(t)
    \/ \E t \in Tasks : TaskHandlerErr(t)
    \/ \E t \in Tasks : TaskHandlerPanics(t)
    \/ \E t \in Tasks : TaskSendErr(t)
    \/ \E t \in Tasks : TaskDeferWgDone(t)
    \/ \E t \in Tasks : TaskRelease(t)

\* the bot at work (handleUpdates and the command goroutines) with
\* BotServiceImpl.Stop called by NumStopCallers goroutines
NextStop ==
    \/ MainRun
    \/ \E c \in StopCallers : StopCall(c)
    \/ \E c \in StopCallers : StopClose(c)
    \/ \E c \in StopCallers : StopReceiving(c)
    \/ LibCloseUpdates
    \/ HULogError
    \/ HUUpdatesClosed
    \/ HUSkipUpdate
    \/ HUSpawnTask
    \/ \E t \in Tasks : TaskAcquire(t)
    \/ \E t \in Tasks : TaskHandlerOk(t)
    \/ \E t \in Tasks : TaskHandlerErr(t)
    \/ \E t \in Tasks : TaskHandlerPanics(t)
    \/ \E t \in Tasks : TaskSendErr(t)
    \/ \E t \in Tasks : TaskDeferWgDone(t)
    \/ \E t \in Tasks : TaskRelease(t)

-----------------------------------------------------------------------------
(***************************************************************************)
(* One command goroutine of App.handleUpdates in detail: slot, command     *)
(* context, handleCommand / handleMemeCommand with the GenerateImage race  *)
(* under the command's context, error report, deferred calls. The ctx of   *)
(* the race (ctxDone) is this command's cmdCtx.                            *)
(***************************************************************************)

\* "meme" runs the provider race; "help", "start" and unknown commands only reply
CmdKinds == {"meme", "other"}

\* the variables of the App a command goroutine never writes
cmdRest == <<mainPc, graceExpired, rootCtxDone, stopChanClosed, receiving, updates,
             huPc, task, waiterPc, doneClosed, verdict, stopper>>
\* the variables of GenerateImage other than its ctx
raceRest == <<prov, errors, i, genPc, genResult>>

CmdFrame == UNCHANGED <<authVars, gptVars, hcVars, cmdRest, ctxVars, pollVars>>

InitCmd ==
    cmd = [pc |-> "none", kind |-> "meme", hung |-> "FusionBrain", ctx |-> "none",
           fired |-> FALSE, raced |-> FALSE, trace |-> <<>>]

\* handleUpdates takes a command from updates: a.wg.Add(1); go func(update) {...}.
\* hung names the provider whose attempt may never report.
CmdSpawn(kind, hung) ==
    /\ Alive
    /\ huPc = "loop"
    /\ updates = "open"
    /\ cmd.pc = "none"
    /\ wgCount' = wgCount + 1
    /\ cmd' = [cmd EXCEPT !.pc = "spawned", !.kind = kind, !.hung = hung]
    /\ UNCHANGED <<errorChan, workerPool, raceVars>>
    /\ CmdFrame

\* workerPool <- struct{}{}
CmdAcquire ==
    /\ Alive
    /\ cmd.pc = "spawned"
    /\ CanAcquire(workerPool)
    /\ workerPool' = workerPool + 1
    /\ cmd' = [cmd EXCEPT !.pc = "acquired", !.trace = Append(@, "acquire")]
    /\ UNCHANGED <<wgCount, errorChan, raceVars>>
    /\ CmdFrame

\* cmdCtx, cancel := context.WithTimeout(ctx, commandTimeout); defer cancel()
\* (a context made from a cancelled parent is cancelled from the start)
CmdMakeCtx ==
    /\ Alive
    /\ cmd.pc = "acquired"
    /\ cmd' = [cmd EXCEPT !.pc = "handle", !.ctx = "made"]
    /\ ctxDone' = rootCtxDone
    /\ UNCHANGED <<wgCount, errorChan, workerPool, raceRest>>
    /\ CmdFrame

\* the timer of cmdCtx fires commandTimeout after the context was made
CmdDeadlineFires ==
    /\ Alive
    /\ cmd.ctx = "made"
    /\ ~ctxDone
    /\ ctxDone' = TRUE
    /\ cmd' = [cmd EXCEPT !.fired = TRUE]
    /\ UNCHANGED <<wgCount, errorChan, workerPool, raceRest>>
    /\ CmdFrame

\* the root context was cancelled: its cancel() cancels the contexts derived from it
CmdParentCancels ==
    /\ Alive
    /\ rootCtxDone
    /\ cmd.ctx = "made"
    /\ ~ctxDone
    /\ ctxDone' = TRUE
    /\ UNCHANGED <<cmd, wgCount, errorChan, workerPool, raceRest>>
    /\ CmdFrame

\* a.handleCommand(cmdCtx, ...): the first a.bot.SendMessage succeeds. For "meme"
\* it is the notice that generation has begun, for the other commands the reply.
CmdHandleOk ==
    /\ Alive
    /\ cmd.pc = "handle"
    /\ cmd' = IF cmd.kind = "meme"
                THEN [cmd EXCEPT !.pc = "generate", !.trace = Append(@, "handle")]
                ELSE [cmd EXCEPT !.pc = "defers", !.trace = @ \o <<"handle", "reply">>]
    /\ UNCHANGED <<wgCount, errorChan, workerPool, raceVars>>
    /\ CmdFrame

\* a.handleCommand(cmdCtx, ...): the first a.bot.SendMessage fails:
\* return fmt.Errorf("failed to send ... message: %w", err)
CmdHandleFails ==
    /\ Alive
    /\ cmd.pc = "handle"
    /\ cmd' = [cmd EXCEPT !.pc = "sendErr", !.trace = Append(@, "handle")]
    /\ UNCHANGED <<wgCount, errorChan, workerPool, raceVars>>
    /\ CmdFrame

C30_MutantCmdGenerate ==
    /\ Alive
    /\ cmd.pc = "generate"
    /\ cmd' = [cmd EXCEPT !.pc = "photo"]
    /\ UNCHANGED <<wgCount, errorChan, workerPool, raceVars>>
    /\ CmdFrame

\* handleMemeCommand: a.bot.HandleCommand(ctx, "meme", args) reaches
\* s.artService.GenerateImage, which starts the provider goroutines
CmdGenerate ==
    /\ Alive
    /\ cmd.pc = "generate"
    /\ cmd' = [cmd EXCEPT !.pc = "race", !.raced = TRUE, !.trace = Append(@, "race")]
    /\ UNCHANGED <<wgCount, errorChan, workerPool, raceVars>>
    /\ CmdFrame

\* the provider goroutines run once GenerateImage has started them
CmdProviderSucceeds(p) == Alive /\ cmd.raced /\ ProviderSucceeds(p)

CmdProviderFails(p) == Alive /\ cmd.raced /\ ProviderFails(p)

\* the select of GenerateImage, while the command is inside GenerateImage
CmdReceiveResult(p) == Alive /\ cmd.pc = "race" /\ ReceiveResult(p)

CmdReceiveError(p) == Alive /\ cmd.pc = "race" /\ ReceiveError(p)

\* handleMemeCommand: imageData, err, caption := a.bot.HandleCommand(...) has returned
CmdRaceReturns ==
    /\ Alive
    /\ cmd.pc = "race"
    /\ genPc = "returned"
    /\ cmd' = [cmd EXCEPT !.pc = IF IsNil(genResult.err) THEN "photo" ELSE "notice"]
    /\ UNCHANGED <<wgCount, errorChan, workerPool, raceVars>>
    /\ CmdFrame

\* handleMemeCommand: a.bot.DeleteMessage(...); a.bot.SendPhoto(...) succeeds; return nil
CmdSendPhoto ==
    /\ Alive
    /\ cmd.pc = "photo"
    /\ cmd' = [cmd EXCEPT !.pc = "defers", !.trace = Append(@, "reply")]
    /\ UNCHANGED <<wgCount, errorChan, workerPool, raceVars>>
    /\ CmdFrame

\* handleMemeCommand: a.bot.SendPhoto(...) fails: the failure notice is sent;
\* return fmt.Errorf("failed to send photo: %w", err)
CmdSendPhotoFails ==
    /\ Alive
    /\ cmd.pc = "photo"
    /\ cmd' = [cmd EXCEPT !.pc = "sendErr", !.trace = Append(@, "reply")]
    /\ UNCHANGED <<wgCount, errorChan, workerPool, raceVars>>
    /\ CmdFrame

\* handleMemeCommand: err != nil from HandleCommand: the failure notice is sent;
\* return fmt.Errorf("failed to generate image: %w", err)
CmdSendNotice ==
    /\ Alive
    /\ cmd.pc = "notice"
    /\ cmd' = [cmd EXCEPT !.pc = "sendErr", !.trace = Append(@, "reply")]
    /\ UNCHANGED <<wgCount, errorChan, workerPool, raceVars>>
    /\ CmdFrame

\* errorChan <- fmt.Errorf("command %s failed: %w", command, err)
CmdSendErr ==
    /\ Alive
    /\ cmd.pc = "sendErr"
    /\ Len(errorChan) < ErrorChanCap
    /\ errorChan' = Append(errorChan, 0)
    /\ cmd' = [cmd EXCEPT !.pc = "defers"]
    /\ UNCHANGED <<wgCount, workerPool, raceVars>>
    /\ CmdFrame

C28_MutantCmdDeferCancel ==
    /\ Alive
    /\ cmd.pc = "defers"
    /\ cmd' = [cmd EXCEPT !.pc = "wgDone"]
    /\ UNCHANGED <<wgCount, errorChan, workerPool, raceVars>>
    /\ CmdFrame

\* the deferred calls, last registered first: cancel()
CmdDeferCancel ==
    /\ Alive
    /\ cmd.pc = "defers"
    /\ ctxDone' = TRUE
    /\ cmd' = [cmd EXCEPT !.pc = "wgDone"]
    /\ UNCHANGED <<wgCount, errorChan, workerPool, raceRest>>
    /\ CmdFrame

\* the deferred a.wg.Done()
CmdDeferWgDone ==
    /\ Alive
    /\ cmd.pc = "wgDone"
    /\ wgCount' = wgCount - 1
    /\ cmd' = [cmd EXCEPT !.pc = "release"]
    /\ UNCHANGED <<errorChan, workerPool, raceVars>>
    /\ CmdFrame

\* the deferred func() { <-workerPool }()
CmdRelease ==
    /\ Alive
    /\ cmd.pc = "release"
    /\ workerPool > 0
    /\ workerPool' = workerPool - 1
    /\ cmd' = [cmd EXCEPT !.pc = "done", !.trace = Append(@, "release")]
    /\ UNCHANGED <<wgCount, errorChan, raceVars>>
    /\ CmdFrame

\* the steps the command goroutine takes by itself
CmdSteps ==
    \/ CmdAcquire
    \/ CmdMakeCtx
    \/ CmdHandleOk
    \/ CmdHandleFails
    \/ CmdGenerate
    \/ CmdRaceReturns
    \/ CmdSendPhoto
    \/ CmdSendPhotoFails
    \/ CmdSendNotice
    \/ CmdSendErr
    \/ CmdDeferCancel
    \/ CmdDeferWgDone
    \/ CmdRelease

\* main, handleUpdates and shutdown around one command goroutine
NextCmd ==
    \/ MainRun
    \/ MainSignal
    \/ GraceExpires
    \/ ShutdownStop
    \/ WaiterCloseDone
    \/ ShutdownSelectDone
    \/ ShutdownSelectTimeout
    \/ MainDeferCancel
    \/ MainReturn
    \/ LibCloseUpdates
    \/ HUCtxDone
    \/ HULogError
    \/ HUUpdatesClosed
    \/ \E kind \in CmdKinds, hung \in Providers : CmdSpawn(kind, hung)
    \/ CmdAcquire
    \/ CmdMakeCtx
    \/ CmdDeadlineFires
    \/ CmdParentCancels
    \/ CmdHandleOk
    \/ CmdHandleFails
    \/ CmdGenerate
    \/ \E p \in Providers : CmdProviderSucceeds(p)
    \/ \E p \in Providers : CmdProviderFails(p)
    \/ \E p \in Providers : CmdReceiveResult(p)
    \/ \E p \in Providers : CmdReceiveError(p)
    \/ CmdRaceReturns
    \/ CmdSendPhoto
    \/ CmdSendPhotoFails
    \/ CmdSendNotice
    \/ CmdSendErr
    \/ CmdDeferCancel
    \/ CmdDeferWgDone
    \/ CmdRelease

-----------------------------------------------------------------------------
(***************************************************************************)
(* The contexts: ctx of main (context.WithCancel(context.Background())) and *)
(* the cmdCtx of each command goroutine, context.WithTimeout(ctx,           *)
(* commandTimeout) with its deferred cancel(). A context derived from a    *)
(* parent registers with it: cancelling the parent cancels the children,   *)
(* cancelling a child removes it from the parent and touches nothing else. *)
(***************************************************************************)

\* the command goroutines whose contexts are followed
NumCommands == 3
CtxCommands == 1 .. NumCommands

\* a cmdCtx before context.WithTimeout has run
NoCtx == [st |-> "none", cause |-> "none", pc |-> "run"]

CtxFrame == UNCHANGED <<raceVars, authVars, gptVars, hcVars, appVars, cmdVars, pollVars>>

InitCtx == cctx = [root |-> FALSE, c |-> [k \in CtxCommands |-> NoCtx]]

C31_MutantCancelChildren(c) == c

\* what cancelling the parent does to the children registered with it
CancelChildren(c) ==
    [k \in CtxCommands |->
        IF c[k].st = "live" THEN [c[k] EXCEPT !.st = "done", !.cause = "parent"]
        ELSE c[k]]

\* cancel() of the root ctx: the deferred cancel of main, App.run on a signal
CtxRootCancel ==
    /\ ~cctx.root
    /\ cctx' = [root |-> TRUE, c |-> CancelChildren(cctx.c)]
    /\ CtxFrame

\* cmdCtx, cancel := context.WithTimeout(ctx, commandTimeout): a child of a
\* parent that is already done is done from the start
CtxWithTimeout(k) ==
    /\ cctx.c[k].st = "none"
    /\ cctx' = [cctx EXCEPT !.c[k] =
                   IF cctx.root THEN [st |-> "done", cause |-> "parent", pc |-> "run"]
                   ELSE [st |-> "live", cause |-> "none", pc |-> "run"]]
    /\ CtxFrame

\* the timer of commandTimeout fires
CtxDeadline(k) ==
    /\ cctx.c[k].st = "live"
    /\ cctx' = [cctx EXCEPT !.c[k].st = "done", !.c[k].cause = "deadline"]
    /\ CtxFrame

\* defer cancel() when the command goroutine ends
CtxDeferCancel(k) ==
    /\ cctx.c[k].st # "none"
    /\ cctx.c[k].pc = "run"
    /\ cctx' = [cctx EXCEPT !.c[k] =
                   IF cctx.c[k].st = "live"
                   THEN [st |-> "done", cause |-> "cancel", pc |-> "ended"]
                   ELSE [cctx.c[k] EXCEPT !.pc = "ended"]]
    /\ CtxFrame

NextCtx ==
    \/ CtxRootCancel
    \/ \E k \in CtxCommands : CtxWithTimeout(k)
    \/ \E k \in CtxCommands : CtxDeadline(k)
    \/ \E k \in CtxCommands : CtxDeferCancel(k)

-----------------------------------------------------------------------------
(***************************************************************************)
(* waitForImageAndGet: the poll loop of YandexArtServiceImpl and           *)
(* FusionBrainServiceImpl. One iteration is a select between ctx.Done()    *)
(* and the ticker, then a status request through a client with a 30 s      *)
(* timeout. `continue` runs the post statement attempt++ of the for loop.  *)
(***************************************************************************)

\* maxAttempts := 60
maxAttempts == 60

\* the two services that poll; FusionBrain also knows the status "FAIL"
PollServices == {"YandexArt", "FusionBrain"}

\* what a "done" answer leads to: the image, operation.Response.Image == "" (no
\* images), or an image that is not base64
DoneOutcomes == {"image", "noImage", "badImage"}

PollFrame == UNCHANGED <<raceVars, authVars, gptVars, hcVars, appVars, cmdVars, ctxVars>>

InitPoll ==
    poll = [pc |-> "idle", svc |-> "YandexArt", badID |-> FALSE, attempt |-> 0,
            checks |-> 0, ctxDone |-> FALSE, startedDone |-> FALSE, ret |-> "none"]

\* the end of an iteration: attempt++, then attempt < maxAttempts or the
\* return after the loop
NextIteration(p, a) ==
    IF a < maxAttempts
    THEN [p EXCEPT !.pc = "select", !.attempt = a]
    ELSE [p EXCEPT !.pc = "returned", !.attempt = a, !.ret = "timedOut"]

C38_MutantAfterFailedCheck(a) == a

\* `continue` after a failed request or an undecodable answer: the post
\* statement attempt++ runs
AfterFailedCheck(a) == a + 1

\* waitForImageAndGet is called; badID: the operation id makes no valid URL
PollCall(svc, bad) ==
    /\ poll.pc = "idle"
    /\ poll' = [poll EXCEPT !.pc = "select", !.svc = svc, !.badID = bad]
    /\ PollFrame

\* the caller's ctx is cancelled or passes its deadline
PollCancel ==
    /\ poll.pc \in {"select", "request"}
    /\ ~poll.ctxDone
    /\ poll' = [poll EXCEPT !.ctxDone = TRUE]
    /\ PollFrame

\* case <-ctx.Done(): return nil, fmt.Errorf("operation cancelled: %w", ctx.Err())
PollCtxDone ==
    /\ poll.pc = "select"
    /\ poll.ctxDone
    /\ poll' = [poll EXCEPT !.pc = "returned", !.ret = "cancelled"]
    /\ PollFrame

\* case <-ticker.C: http.NewRequestWithContext fails (return), or client.Do(req)
\* starts; a request started with ctx done cannot be answered
PollTick ==
    /\ poll.pc = "select"
    /\ poll' = IF poll.badID
               THEN [poll EXCEPT !.pc = "returned", !.ret = "createFailed"]
               ELSE [poll EXCEPT !.pc = "request", !.checks = @ + 1,
                                 !.startedDone = poll.ctxDone]
    /\ PollFrame

\* client.Do returns an error (the network, the 30 s timeout, ctx):
\* if ctx.Err() != nil { return } else continue
PollRequestFails ==
    /\ poll.pc = "request"
    /\ poll' = IF poll.ctxDone
               THEN [poll EXCEPT !.pc = "returned", !.ret = "cancelledInRequest"]
               ELSE NextIteration(poll, AfterFailedCheck(poll.attempt))
    /\ PollFrame

\* json.NewDecoder(resp.Body).Decode fails: if ctx.Err() != nil { return } else continue
PollDecodeFails ==
    /\ poll.pc = "request"
    /\ ~poll.startedDone
    /\ poll' = IF poll.ctxDone
               THEN [poll EXCEPT !.pc = "returned", !.ret = "cancelledInRead"]
               ELSE NextIteration(poll, AfterFailedCheck(poll.attempt))
    /\ PollFrame

\* the answer says the operation is still running: the iteration ends
PollPending ==
    /\ poll.pc = "request"
    /\ ~poll.startedDone
    /\ poll' = NextIteration(poll, poll.attempt + 1)
    /\ PollFrame

\* if operation.Done / response.Status == "DONE": every branch returns
PollDone(outcome) ==
    /\ poll.pc = "request"
    /\ ~poll.startedDone
    /\ poll' = [poll EXCEPT !.pc = "returned", !.ret = outcome]
    /\ PollFrame

\* FusionBrain: else if response.Status == "FAIL" { return nil, fmt.Errorf(...) }
PollStatusFail ==
    /\ poll.pc = "request"
    /\ ~poll.startedDone
    /\ poll.svc = "FusionBrain"
    /\ poll' = [poll EXCEPT !.pc = "returned", !.ret = "failed"]
    /\ PollFrame

\* the steps of the loop itself
PollSteps ==
    \/ PollCtxDone
    \/ PollTick
    \/ PollRequestFails
    \/ PollDecodeFails
    \/ PollPending
    \/ \E o \in DoneOutcomes : PollDone(o)
    \/ PollStatusFail

NextPoll ==
    \/ \E svc \in PollServices, bad \in BOOLEAN : PollCall(svc, bad)
    \/ PollCancel
    \/ PollCtxDone
    \/ PollTick
    \/ PollRequestFails
    \/ PollDecodeFails
    \/ PollPending
    \/ \E o \in DoneOutcomes : PollDone(o)
    \/ PollStatusFail

-----------------------------------------------------------------------------

Init == InitRace /\ InitAuth /\ InitGPT /\ InitHC /\ InitApp /\ InitCmd /\ InitCtx /\ InitPoll

\* the steps of App.shutdown, taken one after the other by the goroutine of main
ShutdownSteps ==
    \/ ShutdownStop
    \/ ShutdownSelectDone
    \/ ShutdownSelectTimeout

\* the program: main, handleUpdates, the command goroutines and shutdown
Spec == Init /\ [][Next]_vars

\* The Go scheduler runs every goroutine that can take a step, and the timer of
\* shutdownCtx fires. No fairness for what the environment decides: the signal,
\* the arrival of updates, and how long a command handler takes (it may hang).
FairSpec ==
    /\ Spec
    /\ WF_vars(ShutdownSteps)
    /\ WF_vars(GraceExpires)
    /\ WF_vars(WaiterCloseDone)

\* The Go scheduler runs the goroutine of handleUpdates, and its select takes a
\* case that stays ready: the done root context, the closed updates channel.
\* Nothing is assumed about main, the shutdown or the command goroutines.
FairSpecHU ==
    /\ Spec
    /\ WF_vars(HUCtxDone)
    /\ WF_vars(HUUpdatesClosed)

SpecRace == Init /\ [][NextRace]_vars

SpecAuth == Init /\ [][NextAuth]_vars

SpecGPT == Init /\ [][NextGPT]_vars

SpecStop == Init /\ [][NextStop]_vars

SpecHC == Init /\ [][NextHC]_vars

SpecCmd == Init /\ [][NextCmd]_vars

SpecCtx == Init /\ [][NextCtx]_vars

SpecPoll == Init /\ [][NextPoll]_vars

\* The ticker fires every interval and client.Do returns within the client's
\* 30 s timeout, so the loop always takes its next step. Nothing is assumed
\* about the caller's ctx.
FairSpecPoll ==
    /\ SpecPoll
    /\ WF_vars(PollSteps)

\* The Go scheduler runs every goroutine that can take a step: main through the
\* shutdown and its return, the waiter, the loop of handleUpdates emptying
\* errorChan, the command goroutine (the Telegram calls return), the select of
\* GenerateImage; the timer of shutdownCtx fires. A provider attempt other than
\* the hung one eventually reports; the hung one may never do. No fairness for
\* the signal.
FairSpecCmd ==
    /\ SpecCmd
    /\ WF_vars(ShutdownSteps)
    /\ WF_vars(GraceExpires)
    /\ WF_vars(WaiterCloseDone)
    /\ WF_vars(MainDeferCancel \/ MainReturn)
    /\ WF_vars(HULogError)
    /\ WF_vars(CmdSteps)
    /\ WF_vars(\E p \in Providers : CmdReceiveResult(p))
    /\ WF_vars(\E p \in Providers : CmdReceiveError(p))
    /\ \A p \in Providers :
          WF_vars(cmd.hung # p /\ (CmdProviderSucceeds(p) \/ CmdProviderFails(p)))

\* The Go scheduler runs a channel operation whose two parties are both ready; the
\* providers' own calls (external HTTP services) get no fairness: they may hang.
FairSpecRace ==
    /\ SpecRace
    /\ WF_vars(\E p \in Providers : ReceiveResult(p))
    /\ WF_vars(\E p \in Providers : ReceiveError(p))

\* As FairSpecRace, and every provider's own GenerateImage returns: each attempt
\* reports an outcome.
FairSpecRaceAll ==
    /\ FairSpecRace
    /\ \A p \in Providers : WF_vars(ProviderSucceeds(p) \/ ProviderFails(p))

-----------------------------------------------------------------------------
(***************************************************************************)
(* Properties of ImageGenerationService.GenerateImage (SpecRace)           *)
(***************************************************************************)

\* the provider's own GenerateImage returned err == nil
Succeeded(p) == prov[p].pc \in {"sendResult", "done"} /\ IsNil(prov[p].err)
\* the provider's own GenerateImage returned an error
Failed(p) == prov[p].pc \in {"sendError", "done"} /\ ~IsNil(prov[p].err)
\* the provider goroutine stands at its channel send
AtSend(p) == prov[p].pc \in {"sendResult", "sendError"}

AggregateText == "all image generation services failed"

\* C1: whenever GenerateImage has returned and some provider attempt succeeded
\* (which it can only do while ctx is live), the result is a succeeding
\* provider's bytes and a nil error, however many other providers failed first.
C1_SuccessIsReturned ==
    (genPc = "returned" /\ \E p \in Providers : Succeeded(p))
        => /\ IsNil(genResult.err)
           /\ \E p \in Providers : Succeeded(p) /\ genResult.bytes = ImageOf(p)

\* C4: a return that happens with ctx already done and no provider having
\* succeeded carries a cancellation error, never the aggregate
\* "all image generation services failed" error.
C4_CancelledIsNotAggregate ==
    [][ ( /\ genPc = "select" /\ genPc' = "returned"
          /\ ctxDone
          /\ \A p \in Providers : ~Succeeded(p)' )
        => ( /\ ~IsNil(genResult'.err)
             /\ genResult'.err.text # AggregateText ) ]_vars

\* C7: when every provider attempt failed, GenerateImage returns a non-nil
\* error and nil bytes; and no return carries bytes together with an error, or
\* neither of them.
C7_AllFailedReturnsErrorOnly ==
    genPc = "returned" =>
        /\ (\A p \in Providers : Failed(p))
              => (~IsNil(genResult.err) /\ genResult.bytes = NoBytes)
        /\ IsNil(genResult.err) # (genResult.bytes = NoBytes)

\* all three attempts failed and GenerateImage has returned
C7_Witness ==
    /\ genPc = "returned"
    /\ \A p \in Providers : Failed(p)
    /\ ~IsNil(genResult.err)

\* C8: once GenerateImage has returned, every provider goroutine that stands
\* at its send on resultChan or errorChan eventually gets past it and ends.
C8_StragglersTerminate ==
    \A p \in Providers : (genPc = "returned" /\ AtSend(p)) ~> (prov[p].pc = "done")

\* C18: the step in which the select receives a provider's result is the
\* return of GenerateImage, with that provider's bytes and a nil error, whatever
\* the other providers are doing; and every provider standing at its send on
\* resultChan can be the one that is received, none is preferred.
C18_FirstSuccessWins ==
    [][ /\ \A p \in Providers :
              (genPc = "select" /\ prov[p].pc = "sendResult" /\ prov'[p].pc = "done")
                  => /\ genPc' = "returned"
                     /\ genResult' = [bytes |-> ImageOf(p), err |-> NoErr]
        /\ \A p \in Providers :
              (genPc = "select" /\ prov[p].pc = "sendResult") => ENABLED ReceiveResult(p)
      ]_vars

\* FusionBrain failed, then YandexArt's result was returned while CloudflareAI
\* is still running
C18_Witness ==
    /\ genPc = "returned"
    /\ prov["FusionBrain"].pc = "done" /\ Failed("FusionBrain")
    /\ prov["CloudflareAI"].pc = "running"
    /\ genResult = [bytes |-> ImageOf("YandexArt"), err |-> NoErr]

\* C24: the aggregate error is returned only after every provider attempt has
\* reported a failure: as many errors received as providers started, none of
\* them still running or standing at its send.
C24_AggregateOnlyWhenAllFailed ==
    (genPc = "returned" /\ genResult.err.text = AggregateText)
        => /\ Len(errors) = Cardinality(Providers)
           /\ \A p \in Providers : prov[p].pc = "done"

\* C25: the aggregate error carries in its chain of wrapped errors the error
\* that some failed provider's own GenerateImage returned.
C25_AggregateKeepsCause ==
    (genPc = "returned" /\ genResult.err.text = AggregateText)
        => \E p \in Providers :
              /\ Failed(p)
              /\ (genResult.err.wraps = prov[p].err \/ genResult.err.wraps.wraps = prov[p].err)

\* C19: once ctx is done while GenerateImage still waits in its select,
\* GenerateImage eventually returns, also when the providers report nothing more.
C19_ReturnsAfterCancel == (ctxDone /\ genPc = "select") ~> (genPc = "returned")

-----------------------------------------------------------------------------
(***************************************************************************)
(* Properties of YandexAuthServiceImpl (SpecAuth)                          *)
(***************************************************************************)

\* every request that reached the issuer so far was answered, or is still to be
\* answered, with a non-empty token
IssuerSucceeds ==
    \A k \in 1 .. Len(fetchLog) :
        fetchLog[k].state = "pending" \/ (fetchLog[k].state = "ok" /\ fetchLog[k].tok # NoToken)

\* C2: starting from the empty cache, as long as the issuer succeeds, at most one
\* RefreshIAMToken request reaches the issuer however many goroutines are inside
\* GetIAMToken, and every GetIAMToken call that has returned returned, without
\* an error, the token of that one request.
C2_SingleFlight ==
    IssuerSucceeds =>
        /\ Len(fetchLog) <= 1
        /\ \A c \in Callers : auth[c].n > 0 =>
              /\ Len(fetchLog) = 1
              /\ fetchLog[1].state = "ok"
              /\ auth[c].ret = fetchLog[1].tok
              /\ IsNil(auth[c].err)

\* two goroutines both found the cache empty on the fast path of the same round
\* of calls, and both calls have returned
C2_Witness ==
    /\ IssuerSucceeds
    /\ Len(fetchLog) = 1
    /\ \E c, d \in Callers :
          /\ c # d
          /\ auth[c].n = 1 /\ auth[d].n = 1
          /\ auth[c].pc = "idle" /\ auth[d].pc = "idle"
          /\ auth[c].tok = NoToken /\ auth[d].tok = NoToken
          /\ auth[c].ret = auth[d].ret /\ auth[c].ret # NoToken

\* the requests the background loop has sent to the issuer
TickerFetches == {k \in 1 .. Len(fetchLog) : fetchLog[k].by = Ticker}

\* C13: every tick of refreshTokenPeriodically sends one request to the issuer,
\* also when a token is cached: whenever the loop waits for its next tick it has
\* sent as many requests as there were ticks.
C13_EveryTickFetches ==
    auth[Ticker].pc = "wait" => Cardinality(TickerFetches) = ticks

\* C20: a GetIAMToken call whose fetch fails returns the error with an empty
\* token and leaves the cache empty; and a call that finds the cache empty goes
\* on to refreshToken and, the cache still being empty under the lock, sends a
\* new request to the issuer: a failure is never answered from the cache.
C20_FailureIsNotCached ==
    [][ \A c \in Callers :
          /\ (auth[c].pc = "fetching" /\ auth'[c].pc = "idle" /\ ~IsNil(auth'[c].err))
                => /\ auth'[c].ret = NoToken
                   /\ auth'[c].err = UpstreamError
                   /\ token' = NoToken
          /\ (auth[c].pc = "runlock" /\ auth[c].tok = NoToken /\ auth'[c].pc # "runlock")
                => auth'[c].pc = "lock"
          /\ (auth[c].pc = "locked" /\ token = NoToken /\ auth'[c].pc # "locked")
                => /\ auth'[c].pc = "fetching"
                   /\ Len(fetchLog') = Len(fetchLog) + 1
      ]_vars

\* a caller's first call failed at the issuer, its next call sent a second
\* request and stored that request's token
C20_Witness ==
    \E c \in Callers :
        /\ Len(fetchLog) = 2
        /\ fetchLog[1].by = c /\ fetchLog[1].state = "error"
        /\ fetchLog[2].by = c /\ fetchLog[2].state = "ok"
        /\ auth[c].n = 2 /\ auth[c].pc = "idle"
        /\ token = fetchLog[2].tok /\ token # NoToken

C26_FailedRefreshClearsToken ==
    [][ /\ (auth[Ticker].pc = "fetching" /\ auth'[Ticker].pc # "fetching"
                                        /\ ~IsNil(auth'[Ticker].err))
              => auth'[Ticker].pc = "clear"
        /\ (auth[Ticker].pc = "clear" /\ auth'[Ticker].pc # "clear")
              => auth'[Ticker].pc = "clearing"
        /\ (auth[Ticker].pc = "clearing" /\ auth'[Ticker].pc # "clearing")
              => (auth'[Ticker].pc = "wait" /\ token' = NoToken)
      ]_vars

\* the background attempt failed, its failure handling is done, and a later
\* GetIAMToken call sent its own request to the issuer
C26_Witness ==
    /\ auth[Ticker].pc = "wait"
    /\ ~IsNil(auth[Ticker].err)
    /\ \E k \in 1 .. Len(fetchLog) - 1 :
          /\ fetchLog[k].by = Ticker /\ fetchLog[k].state = "error"
          /\ fetchLog[k + 1].by \in Callers

\* the RefreshIAMToken requests that are in flight
InFlight == {k \in 1 .. Len(fetchLog) : fetchLog[k].state = "pending"}

\* C27: at most one RefreshIAMToken request is in flight at any time, sent by
\* the goroutine that holds the exclusive lock; the exclusive lock is never held
\* together with a read lock; and s.token changes only in a step of the holder
\* of the exclusive lock, with no reader holding the read lock.
C27_OneRefreshUnderLock ==
    /\ [](/\ Cardinality(InFlight) <= 1
          /\ \A k \in InFlight : muWriter = fetchLog[k].by
          /\ muWriter # NoProc => muReaders = {})
    /\ [][ token' # token => (muWriter # NoProc /\ muReaders = {}) ]_vars

\* the background loop's request is in flight while a caller of GetIAMToken
\* waits for the exclusive lock and another waits for the read lock
C27_Witness ==
    /\ \E k \in InFlight : fetchLog[k].by = Ticker
    /\ \E c, d \in Callers : auth[c].pc = "lock" /\ auth[d].pc = "rlock"

-----------------------------------------------------------------------------
(***************************************************************************)
(* Properties of the App: worker pool and shutdown (Spec, FairSpec)        *)
(***************************************************************************)

\* commands taken from the updates channel whose goroutine has not finished
Unfinished == {t \in Tasks : task[t] # "done"}
\* tasks whose handleCommand has returned and that have not released their slot
AfterHandler == {t \in Tasks : task[t] \in {"sendErr", "defers", "release"}}

ShutdownStarted  == mainPc \in {"stop", "select"}
ShutdownReturned == mainPc \in {"deferCancel", "return", "exited"}

\* C3: the tasks holding a slot are exactly the elements of workerPool and never
\* more than workerPoolSize; with the pool full a task at its slot acquisition
\* cannot proceed.
C3_AtMostKHolders ==
    /\ Cardinality(Holders) <= workerPoolSize
    /\ workerPool = Cardinality(Holders)
    /\ \A t \in Tasks :
          (task[t] = "acquire" /\ Cardinality(Holders) = workerPoolSize)
              => ~ENABLED TaskAcquire(t)

\* the pool is full and one more task waits for a slot
C3_Witness ==
    /\ Cardinality(Holders) = workerPoolSize
    /\ \E t \in Tasks : task[t] = "acquire"

\* C5: shutdown reports the drained outcome only when no goroutine tracked by
\* a.wg is running any more (handleUpdates has returned and every command task
\* has called wg.Done), and the timeout outcome only when the grace period has
\* elapsed; so a verdict taken before the grace period elapsed is the drained one,
\* and a verdict taken with a task outstanding is the timeout one.
C5_VerdictIsCorrect ==
    /\ verdict = "drained" => (wgCount = 0 /\ huPc = "stopped" /\ Tracked = {} /\ doneClosed)
    /\ verdict = "timeout" => graceExpired
    /\ (verdict # "none" /\ ~graceExpired) => verdict = "drained"
    /\ (verdict # "none" /\ (Tracked # {} \/ huPc # "stopped")) => verdict = "timeout"

\* commands were handled and all goroutines finished within the grace period
C5_Witness ==
    /\ verdict = "drained"
    /\ ~graceExpired
    /\ Len(task) >= 2
    /\ \E t \in Tasks : task[t] = "done"

\* C6: once shutdown has been entered it returns, even when a command task
\* never finishes.
C6_ShutdownTerminates == ShutdownStarted ~> ShutdownReturned

\* shutdown has returned although a command handler is still running
C6_Witness ==
    /\ ShutdownReturned
    /\ verdict = "timeout"
    /\ \E t \in Tasks : task[t] = "handle"

\* C9: the commands taken from the updates channel and not yet finished (in
\* flight or waiting for a slot) number at most workerPoolSize + 1.
C9_Backpressure == Cardinality(Unfinished) <= workerPoolSize + 1

\* C10: a task whose handler has finished is never stopped for good before it
\* has released its slot: its next step can be taken, or the loop of
\* handleUpdates that empties errorChan is still running.
C10_FinishedHandlerReleases ==
    \A t \in AfterHandler :
        Alive => \/ ENABLED (TaskSendErr(t) \/ TaskDeferWgDone(t) \/ TaskRelease(t))
                 \/ huPc = "loop"

\* C11: a panic raised inside a command task does not end the process: after
\* the panic the process, the loop of handleUpdates and the sibling tasks are
\* still running.
C11_PanicIsContained ==
    \A t \in Tasks : task[t] = "panicked" => Alive

\* C14: while App.shutdown waits for the in-flight tasks, the root context that
\* handleUpdates and every command context derive from is already cancelled.
C14_RootCancelledBeforeWait == mainPc = "select" => rootCtxDone

\* C15: once BotServiceImpl.Stop has been called by App.shutdown, no task
\* acquires a workerPool slot and starts handleCommand.
C15_NoAdmissionAfterStop ==
    [][ stopChanClosed => \A t \in Tasks : ~(task[t] = "acquire" /\ task'[t] = "handle") ]_vars

\* C16: no call of BotServiceImpl.Stop panics, however many calls there are.
C16_StopIsIdempotent == \A c \in StopCallers : stopper[c] # "panicked"

-----------------------------------------------------------------------------
(***************************************************************************)
(* Properties of YandexGPTServiceImpl (SpecGPT)                            *)
(***************************************************************************)

\* C12: when getToken obtains a token from GetIAMToken after a 401 answer made
\* sendGPTRequest throw the token away, a request was sent to the token issuer
\* after that 401 answer.
C12_FreshFetchAfterInvalidate ==
    [][ (gpt.pc = "inAuth" /\ gpt'.pc = "send" /\ gpt.inval # NoInval)
            => Len(fetchLog) > gpt.inval ]_vars

\* C17: one sendGPTRequest invocation sends at most two requests.
C17_AtMostOneRetry == Len(gpt.sent) <= 2

\* tasks that stand at errorChan <- ... with the buffer full and nobody left to
\* receive from errorChan: they hold their slot and can never take another step
StuckAtSendErr ==
    {t \in Tasks : task[t] = "sendErr" /\ Len(errorChan) = ErrorChanCap /\ huPc = "stopped"}

\* C22: failing tasks never keep other commands from being admitted: while the
\* process runs and a command waits for a slot, the pool has a free slot or
\* some holder of a slot is still able to finish and release it.
C22_FailuresDoNotBlockOthers ==
    (Alive /\ \E t \in Tasks : task[t] = "acquire")
        => (workerPool < workerPoolSize \/ Holders \ StuckAtSendErr # {})

-----------------------------------------------------------------------------
(***************************************************************************)
(* Properties of BotServiceImpl.HandleCommand (SpecHC)                     *)
(***************************************************************************)

\* C23: a command other than "meme" never reaches the image generator and
\* returns nil bytes with a non-nil error; "meme" calls GenerateImage exactly
\* once and returns the bytes and the error of that call as they are.
C23_HandleCommandContract ==
    /\ Len(hc.genCalls) <= 1
    /\ hc.command # "meme" => hc.genCalls = <<>>
    /\ hc.pc = "returned" =>
          IF hc.command # "meme"
            THEN hc.ret.bytes = NoBytes /\ ~IsNil(hc.ret.err)
            ELSE /\ Len(hc.genCalls) = 1
                 /\ hc.ret.bytes = hc.gen.bytes
                 /\ hc.ret.err = hc.gen.err

\* "meme" with empty args has returned the generator's error, the prompt
\* enhancer having failed before
C23_Witness ==
    /\ hc.pc = "returned"
    /\ hc.command = "meme"
    /\ hc.args = DefaultPrompt
    /\ hc.genCalls = <<Original(DefaultPrompt)>>
    /\ ~IsNil(hc.ret.err)
    /\ hc.ret.bytes = NoBytes

-----------------------------------------------------------------------------
(***************************************************************************)
(* Properties of one command goroutine (SpecCmd, FairSpecCmd)              *)
(***************************************************************************)

\* the positions of the command goroutine inside handleCommand
HandlerPcs == {"handle", "generate", "race", "photo", "notice"}
\* the positions after the deferred cancel() has run
EndedPcs == {"wgDone", "release", "done"}

C29_DeadlineFreesSlot ==
    (cmd.fired /\ cmd.pc # "done") ~> (cmd.pc = "done" \/ ~Alive)

\* the deadline fired during the race, the hung provider has still not
\* reported, and the command has ended and released its slot with no shutdown
\* going on
C29_Witness ==
    /\ cmd.fired
    /\ cmd.pc = "done"
    /\ cmd.raced
    /\ prov[cmd.hung].pc = "running"
    /\ mainPc = "waitSignal"
    /\ workerPool = 0

\* the place of an event in the order admit, handle, race, reply, release
Rank(e) ==
    CASE e = "acquire" -> 1 [] e = "handle" -> 2 [] e = "race" -> 3
      [] e = "reply" -> 4 [] e = "release" -> 5

\* C30: the events of a command happen in the order slot acquired,
\* handleCommand started, provider race, reply, slot released, each at most
\* once (a failed photo is followed by its failure notice as part of the reply);
\* a reply of "meme" comes after its race; and the goroutine is inside
\* handleCommand only while it holds its slot.
C30_CommandOrder ==
    /\ \A j, k \in 1 .. Len(cmd.trace) : j < k => Rank(cmd.trace[j]) < Rank(cmd.trace[k])
    /\ cmd.trace # <<>> => cmd.trace[1] = "acquire"
    /\ \A k \in 1 .. Len(cmd.trace) :
          /\ cmd.trace[k] = "release" => (k = Len(cmd.trace) /\ cmd.pc = "done")
          /\ (cmd.trace[k] \in {"race", "reply"}) => cmd.trace[2] = "handle"
          /\ (cmd.trace[k] = "reply" /\ cmd.kind = "meme") => cmd.trace[k - 1] = "race"
    /\ cmd.pc \in HandlerPcs =>
          /\ cmd.trace # <<>>
          /\ cmd.trace[Len(cmd.trace)] # "release"
          /\ workerPool >= 1

\* a "meme" command went through all five events
C30_Witness ==
    /\ cmd.kind = "meme"
    /\ cmd.trace = <<"acquire", "handle", "race", "reply", "release">>

-----------------------------------------------------------------------------
(***************************************************************************)
(* The failure handling of refreshTokenPeriodically (SpecAuth) and the     *)
(* retry of sendGPTRequest (SpecGPT)                                       *)
(***************************************************************************)

\* C35: the failure handling of a background refresh erases no token: its
\* fetch ran with s.token empty under the lock, so a token present when it
\* clears was stored after that fetch failed.
C35_ClearErasesNoNewerToken ==
    [][ (auth[Ticker].pc = "clearing" /\ auth'[Ticker].pc = "wait") => token = NoToken ]_vars

\* C36: a request sendGPTRequest sends again after a 401 answer carries a
\* token other than the one that answer rejected.
C36_RetryCarriesNewToken ==
    \A k \in 2 .. Len(gpt.sent) : gpt.sent[k] # gpt.sent[k - 1]

-----------------------------------------------------------------------------
(***************************************************************************)
(* Termination of GenerateImage (FairSpecRaceAll, SpecRace)                *)
(***************************************************************************)

\* the provider goroutine has handed its outcome to the collecting loop
Reported(p) == prov[p].pc = "done"

\* C33: when every provider attempt reports an outcome GenerateImage returns,
\* and it is never blocked in its select once all three attempts have handed
\* over their outcomes.
C33_GenerateImageTerminates ==
    /\ (genPc = "select") ~> (genPc = "returned")
    /\ [](genPc = "select" => \E p \in Providers : ~Reported(p))

\* GenerateImage has returned and every provider's own call has ended
C33_Witness ==
    /\ genPc = "returned"
    /\ \A p \in Providers : prov[p].pc # "running"
    /\ \E p \in Providers : Reported(p) /\ IsNil(prov[p].err)

\* C37: GenerateImage never returns the error of the statement after its loop:
\* every return carries a provider's image or the aggregate error, and leaves
\* the loop before its last iteration has ended.
C37_FallThroughUnreachable ==
    genPc = "returned" =>
        /\ genResult.err # UnexpectedError
        /\ \/ (IsNil(genResult.err) /\ genResult.bytes # NoBytes)
           \/ (genResult.err = AggregateError(errors) /\ genResult.bytes = NoBytes)
        /\ i < Cardinality(Providers)

\* the return on the second collected error, in the second iteration
C37_Witness ==
    /\ genPc = "returned"
    /\ Len(errors) = 2
    /\ i = 1
    /\ ~IsNil(genResult.err)

\* C34: the slots held never outnumber the command goroutines still counted
\* in a.wg, and once a.wg.Wait() has returned in App.shutdown no slot is held.
C34_NoSlotHeldAfterWait ==
    /\ Cardinality(Holders) <= Cardinality(Tracked)
    /\ (verdict = "drained" /\ Alive) => workerPool = 0

-----------------------------------------------------------------------------
(***************************************************************************)
(* Properties of the loop of App.handleUpdates (FairSpecHU)                *)
(***************************************************************************)

\* C32: once the updates channel is closed or the root context is cancelled,
\* the loop of handleUpdates returns (unless the process ends first), and after
\* it has returned it stays returned and no further command goroutine is
\* started.
C32_HandleUpdatesTerminates ==
    /\ (huPc = "loop" /\ (updates = "closed" \/ rootCtxDone)) ~> (huPc = "stopped" \/ ~Alive)
    /\ [][ huPc = "stopped" => (huPc' = "stopped" /\ Len(task') = Len(task)) ]_vars

\* the loop returned on the closed channel, with the root context live, the
\* process running and a command goroutine started earlier still at work
C32_Witness ==
    /\ huPc = "stopped"
    /\ updates = "closed"
    /\ ~rootCtxDone
    /\ Alive
    /\ \E t \in Tasks : task[t] = "handle"

-----------------------------------------------------------------------------
(***************************************************************************)
(* Properties of the contexts (SpecCtx)                                    *)
(***************************************************************************)

\* C31: cancelling the root context leaves no command context live, and a
\* command context that becomes done by its own deadline or its own cancel()
\* changes neither the root context nor any other command's context.
C31_CancelOnlyDownward ==
    /\ [](cctx.root => \A k \in CtxCommands : cctx.c[k].st # "live")
    /\ [][ /\ (cctx'.root /\ ~cctx.root) =>
                \A k \in CtxCommands : cctx'.c[k].st # "live"
           /\ \A k \in CtxCommands :
                (cctx.c[k].st = "live" /\ cctx'.c[k].st = "done"
                    /\ cctx'.c[k].cause \in {"deadline", "cancel"}) =>
                  /\ cctx'.root = cctx.root
                  /\ \A j \in CtxCommands \ {k} : cctx'.c[j] = cctx.c[j] ]_vars

\* one command's deadline fired and another ended by its own cancel() while
\* the root was live, and the root's later cancellation reached a third
C31_Witness ==
    /\ cctx.root
    /\ \E j, k, l \in CtxCommands :
          /\ cctx.c[j].cause = "deadline"
          /\ cctx.c[k].cause = "cancel"
          /\ cctx.c[l].cause = "parent"
          /\ cctx.c[l].pc = "run"

-----------------------------------------------------------------------------
(***************************************************************************)
(* Properties of waitForImageAndGet (FairSpecPoll)                         *)
(***************************************************************************)

\* the errors that report the cancellation of ctx
CancelErrors == {"cancelled", "cancelledInRequest", "cancelledInRead"}

\* the loop is inside the call and has not returned
Polling == poll.pc \in {"select", "request"}

\* the budget of status checks: every started check is counted, whatever its
\* outcome, and there are at most maxAttempts of them
PollBudget ==
    /\ poll.checks <= maxAttempts
    /\ poll.pc = "select" => (poll.attempt < maxAttempts /\ poll.checks = poll.attempt)
    /\ poll.pc = "request" => (poll.attempt < maxAttempts /\ poll.checks = poll.attempt + 1)
    /\ poll.ret = "timedOut" => (poll.attempt = maxAttempts /\ poll.checks = maxAttempts)

\* with ctx done at the select the loop makes no further successful check: it
\* returns a cancellation error (or the error of a request that cannot be made)
PollCancelled ==
    /\ (poll.pc = "select" /\ poll.ctxDone /\ poll'.pc = "returned")
          => poll'.ret \in {"cancelled", "createFailed"}
    /\ (poll.pc = "request" /\ poll.startedDone /\ poll'.pc # "request")
          => (poll'.pc = "returned" /\ poll'.ret = "cancelledInRequest")

\* C38 (amended): waitForImageAndGet returns; it makes at most maxAttempts
\* status checks, failed requests and undecodable answers included; with ctx
\* done at the select it returns a cancellation error; it returns timed-out only
\* after the last attempt; and the image it returns is the one of the first
\* "done" answer, which ends the call with the image or, when it carries none
\* that decodes, with an error.
C38_PollTerminates ==
    /\ Polling ~> (poll.pc = "returned")
    /\ [](PollBudget)
    /\ [][PollCancelled]_vars
    /\ [][ (poll'.ret \in DoneOutcomes /\ poll.ret = "none")
              => (poll.pc = "request" /\ poll'.pc = "returned") ]_vars
    /\ [](poll.pc = "returned" => poll.ret # "none")

\* the call timed out after its sixtieth check, with ctx still live
C38_Witness ==
    /\ poll.pc = "returned"
    /\ poll.ret = "timedOut"
    /\ poll.checks = maxAttempts
    /\ ~poll.ctxDone

\* C38 as stated: in addition, the return on the first "done" answer is the
\* return of the image, and the return with ctx done at the select is a
\* cancellation error.
C38_DoneReturnsImage ==
    [][ /\ (poll.pc = "request" /\ poll'.ret \in DoneOutcomes) => poll'.ret = "image"
        /\ (poll.pc = "select" /\ poll.ctxDone /\ poll'.pc = "returned")
              => poll'.ret \in CancelErrors ]_vars

====
